---- MODULE Spec2Model ----
(***************************************************************************)
(* Model of django_migration_fixture/__init__.py: fixture(app, fixtures,   *)
(* fixtures_dir, raise_does_not_exist) and the two callables it returns,   *)
(* load_fixture (forward) and unload_fixture (reverse), together with the  *)
(* post_migrate signal the forward callable subscribes to.                 *)
(*                                                                         *)
(* The framework is the environment: a deserialized object is the pair of  *)
(* its model name and obj.object.__dict__ (a mapping from field names to   *)
(* values); the ORM's save() updates the row with the object's id or       *)
(* inserts a new row (with the next free key when the object carries no    *)
(* id); objects.get with a filter returns the only matching row, raises   *)
(* DoesNotExist when none matches and MultipleObjectsReturned when several *)
(* do; Signal.send calls the connected receivers in connection order and   *)
(* lets a receiver's exception propagate.                                  *)
(***************************************************************************)
EXTENDS Integers, Sequences, FiniteSets, TLC

\* ------------------------------------------------------------------ bounds
MaxLen == 2         \* objects in the fixture files altogether
MaxHandlers == 2    \* calls of the forward callable
MaxRows == 2        \* a post_migrate event is delivered while the table holds fewer rows

\* ------------------------------------------------------------ input domains
\* The label the handler compares sender.label with (line 61).
PackageLabel == "django_migration_fixture"

\* Labels of the installed applications that emit post_migrate.
AppLabels == {"myapp", PackageLabel, "auth"}

\* Applications passed as `app` to fixture().
OwnerLabels == {"myapp", PackageLabel}

\* Deserialized objects the fixture files can hold: model and __dict__.
Objects ==
    { [model |-> "Egg", fields |-> [id |-> 1, slug |-> 1, name |-> 1]],
      [model |-> "Egg", fields |-> [id |-> 2, name |-> 1]],
      [model |-> "Ham", fields |-> [slug |-> 1, name |-> 1]],
      [model |-> "Jam", fields |-> [name |-> 1]] }

SeqsUpTo(S, n) == UNION { [1..k -> S] : k \in 0..n }

\* A fixture file is the sequence of the objects it deserializes to.
Files == SeqsUpTo(Objects, MaxLen)

\* `fixtures` after the normalisation of lines 37-38: one file (possibly empty), or
\* two files of one object each.
FixtureLists ==
    { <<f>> : f \in Files } \cup { << <<a>>, <<b>> >> : a \in Objects, b \in Objects }

VARIABLES
    app,                    \* label of the application passed to fixture()
    fixtures,               \* the configured files, in list order
    raise_does_not_exist,   \* the flag passed to fixture()
    receivers,              \* post_migrate's connected handlers, in connection order
    created,                \* number of signal_handler closures created so far
    done,                   \* handlers that reached the disconnect of line 73
    db,                     \* the rows of the database
    events,                 \* what the last operation did, in order
    raised,                 \* the exception the last operation ended with, or "none"
    op,                     \* the last operation and its inputs
    notified                \* connected handlers an event of the owning application was sent to

vars == <<app, fixtures, raise_does_not_exist, receivers, created, done, db,
          events, raised, op, notified>>

\* --------------------------------------------------------------- helpers
RECURSIVE Flatten(_)
Flatten(fs) == IF fs = <<>> THEN <<>> ELSE Head(fs) \o Flatten(Tail(fs))

\* get_objects(): every object of every file, in file-list order then in-file order.
get_objects(fs) == Flatten(fs)

Range(s) == { s[i] : i \in 1..Len(s) }

SetMax(S) == IF S = {} THEN 0 ELSE CHOOSE x \in S : \A y \in S : y <= x

\* obj.save(): create-or-update on the object's id; an object without id is inserted
\* under the next key of its table.
save(obj, rows) ==
    IF "id" \in DOMAIN obj.fields
    THEN { r \in rows : ~(r.model = obj.model /\ r.pk = obj.fields.id) }
         \cup { [model |-> obj.model, pk |-> obj.fields.id, fields |-> obj.fields] }
    ELSE rows \cup { [model |-> obj.model,
                      pk |-> SetMax({ r.pk : r \in { x \in rows : x.model = obj.model } }) + 1,
                      fields |-> obj.fields] }

\* The mutable part of the state, threaded through one operation.
State == [receivers |-> receivers, done |-> done, db |-> db,
          events |-> <<>>, raised |-> "none"]

Remove(s, h) == SelectSeq(s, LAMBDA x : x # h)

\* Variant: the reset covers every model the fixtures know, not only those passed.
reset_db_sequences_all(h, models, st, fail) ==
    IF fail
    THEN [st EXCEPT !.raised = "Error"]
    ELSE [st EXCEPT !.events = Append(@, [op |-> "execute", h |-> h,
                                          models |-> { o.model : o \in Objects }])]

\* reset_db_sequences(models): nothing at all for an empty set; otherwise the reset
\* statements of these models are executed, and `fail` makes the execution raise.
reset_db_sequences(h, models, st, fail) ==
    IF models = {} THEN st
    ELSE IF fail
         THEN [st EXCEPT !.raised = "Error"]
         ELSE [st EXCEPT !.events = Append(@, [op |-> "execute", h |-> h, models |-> models])]

\* Variant: an object that fails is skipped and the loop goes on.
RECURSIVE LoadLoop_skip(_, _, _, _, _, _)
LoadLoop_skip(h, objs, i, failAt, models, st) ==
    IF i > Len(objs) THEN [st |-> st, models |-> models]
    ELSE IF i = failAt THEN LoadLoop_skip(h, objs, i + 1, failAt, models, st)
    ELSE LoadLoop_skip(h, objs, i + 1, failAt, models \cup {objs[i].model},
                       [st EXCEPT !.db = save(objs[i], @),
                                  !.events = Append(@, [op |-> "save", h |-> h, obj |-> objs[i]])])

\* The loop of lines 64-67 from object i on; failAt is the index of the object
\* whose deserialization or save raises (0: none does).
RECURSIVE LoadLoop(_, _, _, _, _, _)
LoadLoop(h, objs, i, failAt, models, st) ==
    IF i > Len(objs) THEN [st |-> st, models |-> models]
    ELSE IF i = failAt THEN [st |-> [st EXCEPT !.raised = "Error"], models |-> models]
    ELSE LoadLoop(h, objs, i + 1, failAt, models \cup {objs[i].model},
                  [st EXCEPT !.db = save(objs[i], @),
                             !.events = Append(@, [op |-> "save", h |-> h, obj |-> objs[i]])])

\* Variant: the handler stays connected after its load pass.
signal_handler_keep(h, sender, app_config, asserts, objs, failAt, st) ==
    IF sender # PackageLabel THEN st
    ELSE IF asserts /\ app_config # PackageLabel
    THEN [st EXCEPT !.raised = "AssertionError"]
    ELSE LET l  == LoadLoop(h, objs, 1, failAt, {}, st)
             c  == [l.st EXCEPT !.events =
                        Append(@, [op |-> "reset_db_sequences", h |-> h, models |-> l.models])]
             r  == reset_db_sequences(h, l.models, c, failAt = Len(objs) + 1)
         IN IF l.st.raised # "none" THEN l.st
            ELSE IF r.raised # "none" THEN r
            ELSE [r EXCEPT !.done = @ \cup {h}]

\* Variant: the handler disconnects itself before loading, so also when the load fails.
signal_handler_first(h, sender, app_config, asserts, objs, failAt, st) ==
    IF sender # PackageLabel THEN st
    ELSE IF asserts /\ app_config # PackageLabel
    THEN [st EXCEPT !.raised = "AssertionError"]
    ELSE LET d  == [st EXCEPT !.receivers = Remove(@, h),
                              !.events = Append(@, [op |-> "disconnect", h |-> h])]
             l  == LoadLoop(h, objs, 1, failAt, {}, d)
             c  == [l.st EXCEPT !.events =
                        Append(@, [op |-> "reset_db_sequences", h |-> h, models |-> l.models])]
             r  == reset_db_sequences(h, l.models, c, failAt = Len(objs) + 1)
         IN IF l.st.raised # "none" THEN l.st
            ELSE IF r.raised # "none" THEN r
            ELSE [r EXCEPT !.done = @ \cup {h}]

\* signal_handler(app_config, sender): handler h receives the event of `sender`;
\* sender and app_config are the labels of the two arguments (line 62 asserts on the
\* second). `asserts` tells whether the interpreter executes assert statements (it
\* does not under python -O). failAt in 1..N fails object failAt, failAt = N+1 fails
\* the reset statements.
signal_handler(h, sender, app_config, asserts, objs, failAt, st) ==
    IF sender # PackageLabel THEN st
    ELSE IF asserts /\ app_config # PackageLabel
    THEN [st EXCEPT !.raised = "AssertionError"]
    ELSE LET l  == LoadLoop(h, objs, 1, failAt, {}, st)
             c  == [l.st EXCEPT !.events =
                        Append(@, [op |-> "reset_db_sequences", h |-> h, models |-> l.models])]
             r  == reset_db_sequences(h, l.models, c, failAt = Len(objs) + 1)
         IN IF l.st.raised # "none" THEN l.st
            ELSE IF r.raised # "none" THEN r
            ELSE [r EXCEPT !.receivers = Remove(@, h),
                           !.done = @ \cup {h},
                           !.events = Append(@, [op |-> "disconnect", h |-> h])]

\* Signal.send: the receivers connected when the event is sent are called in order;
\* an exception ends the delivery.
RECURSIVE send(_, _, _, _, _, _, _, _)
send(hs, sender, app_config, asserts, objs, failH, failAt, st) ==
    IF hs = <<>> \/ st.raised # "none" THEN st
    ELSE send(Tail(hs), sender, app_config, asserts, objs, failH, failAt,
              signal_handler(Head(hs), sender, app_config, asserts, objs,
                             IF Head(hs) = failH THEN failAt ELSE 0, st))

\* Variant: the forward callable loads the fixture itself.
load_fixture_inline(h, st) ==
    LET l == LoadLoop(h, get_objects(fixtures), 1, 0, {}, st)
    IN reset_db_sequences(h, l.models,
           [l.st EXCEPT !.events =
               Append(@, [op |-> "reset_db_sequences", h |-> h, models |-> l.models])],
           FALSE)

\* load_fixture(app_config, schema_editor): connects a new signal_handler closure.
load_fixture(h, st) ==
    [st EXCEPT !.receivers = Append(@, h),
               !.events = Append(@, [op |-> "connect", h |-> h])]

\* Variant: slug is tried before id.
LookupKwargs_slug_first(d) ==
    IF "slug" \in DOMAIN d THEN [k \in {"slug"} |-> d.slug]
    ELSE IF "id" \in DOMAIN d THEN [k \in {"id"} |-> d.id]
    ELSE d

\* Lines 80-86: the filter of the lookup, from obj.object.__dict__.
LookupKwargs(d) ==
    IF "id" \in DOMAIN d THEN [k \in {"id"} |-> d.id]
    ELSE IF "slug" \in DOMAIN d THEN [k \in {"slug"} |-> d.slug]
    ELSE d

\* The rows of `model` the lookup of line 88 selects.
Matching(model, kwargs, rows) ==
    { r \in rows : /\ r.model = model
                   /\ \A k \in DOMAIN kwargs :
                         k \in DOMAIN r.fields /\ r.fields[k] = kwargs[k] }

\* Variant: the first of the matching rows is deleted, however many match.
delete_object_first(i, obj, flag, failDelete, st) ==
    LET kwargs == LookupKwargs(obj.fields)
        found  == Matching(obj.model, kwargs, st.db)
        looked == [st EXCEPT !.events =
                      Append(@, [op |-> "get", h |-> 0, i |-> i, kwargs |-> kwargs,
                                 matches |-> Cardinality(found)])]
        first  == CHOOSE r \in found : \A x \in found : r.pk <= x.pk
    IN IF found # {} /\ failDelete
       THEN [looked EXCEPT !.raised = "Error"]
       ELSE IF found # {}
       THEN [looked EXCEPT !.db = @ \ {first},
                           !.events = Append(@, [op |-> "delete", h |-> 0, i |-> i,
                                                 row |-> first])]
       ELSE IF ~flag
       THEN [looked EXCEPT !.raised = "FixtureObjectDoesNotExist"]
       ELSE looked

\* Lines 87-91 for one object: get(...).delete(), and the except clause; failDelete
\* makes the delete of the row found raise.
delete_object(i, obj, flag, failDelete, st) ==
    LET kwargs == LookupKwargs(obj.fields)
        found  == Matching(obj.model, kwargs, st.db)
        looked == [st EXCEPT !.events =
                      Append(@, [op |-> "get", h |-> 0, i |-> i, kwargs |-> kwargs,
                                 matches |-> Cardinality(found)])]
    IN IF Cardinality(found) = 1 /\ failDelete
       THEN [looked EXCEPT !.raised = "Error"]
       ELSE IF Cardinality(found) = 1
       THEN [looked EXCEPT !.db = @ \ found,
                           !.events = Append(@, [op |-> "delete", h |-> 0, i |-> i,
                                                 row |-> CHOOSE r \in found : TRUE])]
       ELSE IF Cardinality(found) > 1
       THEN [looked EXCEPT !.raised = "MultipleObjectsReturned"]
       ELSE IF ~flag
       THEN [looked EXCEPT !.raised = "FixtureObjectDoesNotExist"]
       ELSE looked

\* unload_fixture(apps, schema_editor): the loop of line 78 from object i on. The
\* objects come lazily from get_objects(): with stage "fetch", obtaining object failAt
\* (open, deserialize, or apps.get_model of line 79) raises before its lookup; with
\* stage "delete", the delete of its row raises.
RECURSIVE unload_fixture(_, _, _, _, _, _)
unload_fixture(objs, i, flag, failAt, stage, st) ==
    IF i > Len(objs) \/ st.raised # "none" THEN st
    ELSE IF i = failAt /\ stage = "fetch" THEN [st EXCEPT !.raised = "Error"]
    ELSE unload_fixture(objs, i + 1, flag, failAt, stage,
                        delete_object(i, objs[i], flag,
                                      i = failAt /\ stage = "delete", st))

Commit(st) ==
    /\ receivers' = st.receivers
    /\ done' = st.done
    /\ db' = st.db
    /\ events' = st.events
    /\ raised' = st.raised

NoInput == [sender |-> "", failH |-> 0, failAt |-> 0, stage |-> ""]

Init ==
    /\ app \in OwnerLabels
    /\ fixtures \in FixtureLists
    /\ raise_does_not_exist \in BOOLEAN
    /\ receivers = <<>>
    /\ created = 0
    /\ done = {}
    /\ db = {}
    /\ events = <<>>
    /\ raised = "none"
    /\ op = [name |-> "fixture"] @@ NoInput
    /\ notified = {}

LoadFixture ==
    /\ created < MaxHandlers
    /\ created' = created + 1
    /\ Commit(load_fixture(created + 1, State))
    /\ op' = [name |-> "load_fixture"] @@ NoInput
    /\ UNCHANGED <<app, fixtures, raise_does_not_exist, notified>>

\* The failures a delivery can meet: none, or handler failH raising at object failAt
\* (or, with failAt one past the last object, in the reset statements).
Failures(sender, hs, n) ==
    { [failH |-> 0, failAt |-> 0] } \cup
    { f \in [failH : { hs[j] : j \in 1..Len(hs) }, failAt : 1..(n + 1)] :
        sender = PackageLabel /\ (f.failAt = n + 1 => n > 0) }

PostMigrate ==
    /\ Cardinality(db) < MaxRows
    /\ \E sender \in AppLabels :
         \E f \in Failures(sender, receivers, Len(get_objects(fixtures))) :
          \* the framework sends post_migrate with sender = app_config; the
          \* interpreter runs with or without assert statements
          /\ \E asserts \in BOOLEAN :
                Commit(send(receivers, sender, sender, asserts, get_objects(fixtures),
                            f.failH, f.failAt, State))
          /\ op' = [name |-> "post_migrate", sender |-> sender,
                    failH |-> f.failH, failAt |-> f.failAt, stage |-> ""]
          /\ notified' = IF sender = app
                         THEN (notified \cup Range(receivers)) \cap Range(receivers')
                         ELSE notified \cap Range(receivers')
    /\ UNCHANGED <<app, fixtures, raise_does_not_exist, created>>

\* The failures an unload can meet: none, or object failAt raising at `stage`.
UnloadFailures(n) ==
    { [failAt |-> 0, stage |-> ""] } \cup [failAt : 1..n, stage : {"fetch", "delete"}]

UnloadFixture ==
    /\ \E f \in UnloadFailures(Len(get_objects(fixtures))) :
          \* a failure is an input only where the unload gets as far as meeting it
          /\ f.failAt # 0 =>
                unload_fixture(get_objects(fixtures), 1, raise_does_not_exist,
                               f.failAt, f.stage, State).raised = "Error"
          /\ Commit(unload_fixture(get_objects(fixtures), 1, raise_does_not_exist,
                                   f.failAt, f.stage, State))
          /\ op' = [name |-> "unload_fixture", sender |-> "", failH |-> 0,
                    failAt |-> f.failAt, stage |-> f.stage]
    /\ UNCHANGED <<app, fixtures, raise_does_not_exist, created, notified>>

Next == LoadFixture \/ PostMigrate \/ UnloadFixture

Spec == Init /\ [][Next]_vars
\* ------------------------------------------------------- reading the events
Stream == get_objects(fixtures)

\* The objects handler h saved in the event list es, in order.
SavedBy(h, es) ==
    LET sv == SelectSeq(es, LAMBDA e : e.op = "save" /\ e.h = h)
    IN [i \in 1..Len(sv) |-> sv[i].obj]

Count(name, h, es) == Len(SelectSeq(es, LAMBDA e : e.op = name /\ e.h = h))

Positions(name, h, es) == { i \in 1..Len(es) : es[i].op = name /\ es[i].h = h }

\* No record saved, no reset called.
NoLoadEffect(es) ==
    \A i \in 1..Len(es) : es[i].op \notin {"save", "reset_db_sequences", "execute"}

\* No record written, no reset statement executed.
NoDatabaseEffect(es) == \A i \in 1..Len(es) : es[i].op \notin {"save", "execute"}

IndexOf(h, hs) == CHOOSE j \in 1..Len(hs) : hs[j] = h

\* C1: the forward callable only connects one new handler: it saves nothing and
\* resets no sequence, and saves and resets happen only in a post_migrate delivery.
C1_ForwardOnlySubscribes ==
    [][ /\ op'.name = "load_fixture" =>
             /\ events' = << [op |-> "connect", h |-> created'] >>
             /\ receivers' = Append(receivers, created')
             /\ db' = db /\ done' = done /\ raised' = "none"
        /\ ~NoLoadEffect(events') => op'.name = "post_migrate" ]_vars

C1_Witness ==
    /\ op.name = "load_fixture"
    /\ Len(Stream) > 0
    /\ app = PackageLabel
    /\ db = {}
    /\ Len(receivers) = 1

\* C2: a post_migrate event whose sender is not the application passed to fixture()
\* saves no record and issues no sequence reset.
C2_NoLoadForOtherApp ==
    (op.name = "post_migrate" /\ op.sender # app) => NoDatabaseEffect(events)

\* C3: once the forward callable has been called, the first post_migrate event sent
\* for the owning application makes each connected handler save the whole stream.
C3_OwnerEventLoadsStream ==
    [][ (op'.name = "post_migrate" /\ op'.sender = app /\ op'.failH = 0) =>
            \A h \in Range(receivers) \ notified : SavedBy(h, events') = Stream ]_vars

\* C4: a handler that completed a load pass is not connected any more and no later
\* event makes it save or reset again.
C4_LoadsAtMostOnce ==
    [][ \A h \in done :
            /\ h \notin Range(receivers)
            /\ \A i \in 1..Len(events') : events'[i].h # h ]_vars

C4_Witness ==
    /\ op.name = "post_migrate"
    /\ op.sender = PackageLabel
    /\ done # {}
    /\ Len(Stream) > 0
    /\ events = <<>>

\* C5: in a load pass that saves all N objects the reset is called exactly once,
\* after the N saves, with exactly the models of the saved objects; the statements
\* executed are those of that call; a pass that fails before issues no reset.
C5_ResetOnceAfterSaves ==
    op.name = "post_migrate" =>
        \A h \in 1..created :
            LET calls == Positions("reset_db_sequences", h, events)
                saves == Positions("save", h, events)
                execs == Positions("execute", h, events)
                saved == SavedBy(h, events)
            IN /\ Cardinality(calls) <= 1
               /\ (saves # {} \/ calls # {}) =>
                     (Cardinality(calls) = 1) = (saved = Stream)
               /\ \A c \in calls :
                     /\ \A p \in saves : p < c
                     /\ Cardinality(saves) = Len(Stream)
                     /\ events[c].models = { saved[i].model : i \in 1..Len(saved) }
               /\ \A x \in execs :
                     /\ x - 1 \in calls
                     /\ events[x].models = events[x - 1].models
                     /\ Cardinality(events[x].models) =
                            Cardinality({ Stream[i].model : i \in 1..Len(Stream) })
               /\ Cardinality(execs) <= 1

C5_Witness ==
    /\ op.name = "post_migrate"
    /\ \E h \in 1..created :
          /\ Len(SavedBy(h, events)) = 2
          /\ \E c \in Positions("reset_db_sequences", h, events) :
                Cardinality(events[c].models) = 2
          /\ Positions("execute", h, events) # {}

\* C6: the reverse callable looks an object up by {id} when its __dict__ has id,
\* else by {slug} when it has slug, else by all its field values.
C6_LookupKeyPolicy ==
    op.name = "unload_fixture" =>
        \A p \in Positions("get", 0, events) :
            LET d  == Stream[events[p].i].fields
                kw == events[p].kwargs
            IN /\ "id" \in DOMAIN d => (DOMAIN kw = {"id"} /\ kw["id"] = d["id"])
               /\ ("id" \notin DOMAIN d /\ "slug" \in DOMAIN d) =>
                     (DOMAIN kw = {"slug"} /\ kw["slug"] = d["slug"])
               /\ ("id" \notin DOMAIN d /\ "slug" \notin DOMAIN d) => kw = d

C6_Witness ==
    /\ op.name = "unload_fixture"
    /\ \E p \in Positions("get", 0, events) :
          {"id", "slug"} \subseteq DOMAIN Stream[events[p].i].fields
    /\ \E p \in Positions("get", 0, events) :
          "id" \notin DOMAIN Stream[events[p].i].fields

\* C7: when no row matches an object (and nothing else fails), the reverse callable
\* raises FixtureObjectDoesNotExist unless raise_does_not_exist is False; with False
\* it raises nothing and goes on to look up every remaining object.
C7_RaisesUnlessFlagFalse ==
    (op.name = "unload_fixture" /\ op.failAt = 0
        /\ \E p \in Positions("get", 0, events) : events[p].matches = 0) =>
        IF raise_does_not_exist = FALSE
        THEN /\ raised # "FixtureObjectDoesNotExist"
             /\ (raised = "none" => Count("get", 0, events) = Len(Stream))
        ELSE raised = "FixtureObjectDoesNotExist"

\* C8: when object k of a load pass fails, the error propagates, exactly the objects
\* before k are saved by that pass and their rows stay, no reset is issued, and the
\* delivery ends there.
C8_FailureAbortsLoad ==
    (op.name = "post_migrate" /\ op.failAt \in 1..Len(Stream)) =>
        /\ raised = "Error"
        /\ SavedBy(op.failH, events) = SubSeq(Stream, 1, op.failAt - 1)
        /\ Count("reset_db_sequences", op.failH, events) = 0
        /\ Count("execute", op.failH, events) = 0
        /\ Count("disconnect", op.failH, events) = 0
        /\ \A i \in 1..Len(events) :
              events[i].h = op.failH => \A j \in i..Len(events) : events[j].h = op.failH
        /\ \A i \in 1..(op.failAt - 1) :
              \E r \in db : r.model = Stream[i].model /\ r.fields = Stream[i].fields

C8_Witness ==
    /\ op.name = "post_migrate"
    /\ op.failAt = 2
    /\ Len(Stream) = 2
    /\ raised = "Error"
    /\ Len(SavedBy(op.failH, events)) = 1

\* C9 as stated: whenever at least one row matches the filter of an object, exactly
\* one matching row is deleted and the next object is looked up (in an unload where
\* neither fetching an object nor a delete fails).
C9_DeletesOneOfSeveral ==
    (op.name = "unload_fixture" /\ op.failAt = 0) =>
        \A p \in Positions("get", 0, events) :
            events[p].matches >= 1 =>
                /\ p < Len(events)
                /\ events[p + 1].op = "delete" /\ events[p + 1].i = events[p].i
                /\ events[p].i < Len(Stream) =>
                      \E q \in Positions("get", 0, events) : events[q].i = events[p].i + 1

\* C9 amended: when exactly one row matches, that row is deleted and, unless that
\* delete or the fetch of the next object raises, the next object is looked up; when
\* several match, MultipleObjectsReturned ends the unload and no row of that object is
\* deleted. The rows deleted are exactly those found alone.
C9_DeletesTheOnlyMatch ==
    [][ op'.name = "unload_fixture" =>
          /\ \A p \in Positions("get", 0, events') :
                LET e == events'[p]
                    deleteFails == op'.failAt = e.i /\ op'.stage = "delete"
                    fetchFails  == op'.failAt = e.i + 1 /\ op'.stage = "fetch"
                IN /\ (e.matches = 1 /\ deleteFails) =>
                        /\ p = Len(events')
                        /\ raised' = "Error"
                   /\ (e.matches = 1 /\ ~deleteFails) =>
                        /\ p < Len(events')
                        /\ events'[p + 1].op = "delete" /\ events'[p + 1].i = e.i
                        /\ events'[p + 1].row \in Matching(Stream[e.i].model, e.kwargs, db)
                        /\ (e.i < Len(Stream) /\ ~fetchFails) =>
                              \E q \in Positions("get", 0, events') : events'[q].i = e.i + 1
                        /\ fetchFails =>
                              /\ p + 1 = Len(events')
                              /\ raised' = "Error"
                   /\ e.matches > 1 =>
                        /\ p = Len(events')
                        /\ raised' = "MultipleObjectsReturned"
          /\ db' = db \ { events'[q].row : q \in Positions("delete", 0, events') }
          /\ \A q \in Positions("delete", 0, events') :
                q > 1 /\ events'[q - 1].op = "get" /\ events'[q - 1].matches = 1 ]_vars

C9_Witness ==
    /\ op.name = "unload_fixture"
    /\ op.failAt = 0
    /\ \E p \in Positions("delete", 0, events) :
          /\ events[p].i = 1
          /\ \E q \in Positions("get", 0, events) : events[q].i = 2

\* C10: every handler created is connected until it completes a load pass without
\* error and never after; a delivery that runs no load, or whose load fails, leaves
\* it connected, and a load always starts from the first object; the forward
\* callable connects a fresh handler each time.
C10_SubscriptionLifecycle ==
    [][ /\ Range(receivers') \cap done' = {}
        /\ Range(receivers') \cup done' = 1..created'
        /\ Len(receivers') = Cardinality(Range(receivers'))
        /\ op'.name = "load_fixture" =>
              /\ created' \notin Range(receivers) \cup done
              /\ receivers' = Append(receivers, created')
        /\ op'.name = "unload_fixture" => receivers' = receivers
        /\ op'.name = "post_migrate" =>
              \A h \in Range(receivers) :
                 LET called == op'.failH = 0 \/
                               IndexOf(h, receivers) <= IndexOf(op'.failH, receivers)
                     loads  == called /\ op'.sender = PackageLabel
                     saved  == SavedBy(h, events')
                 IN /\ (h \in done') = (loads /\ op'.failH # h)
                    /\ loads => /\ Len(saved) <= Len(Stream)
                                /\ saved = SubSeq(Stream, 1, Len(saved))
                                /\ (op'.failH # h => saved = Stream)
                    /\ ~loads => \A i \in 1..Len(events') : events'[i].h # h ]_vars

C10_Witness ==
    /\ op.name = "load_fixture"
    /\ done # {}
    /\ Len(receivers) = 1
    /\ Len(Stream) > 0
====
